---- MODULE Spec2Model ----
(***************************************************************************)
(* Model of lambda_code/redditAwsPostAnalyzer.py: the run controller       *)
(* (lambda_handler), its eligibility scan, dedup gate and per-post         *)
(* processing, and the response extraction / normalization pipeline of     *)
(* invoke_bedrock.                                                         *)
(***************************************************************************)
EXTENDS Integers, Sequences, FiniteSets, TLC

VARIABLES
  POST_LIMIT,                   \* target number of eligible posts
  NEW_POST_CHECK_LIMIT,         \* scan budget
  MIN_COMMENTS_TO_PROCESS,      \* comment threshold
  forum,                        \* newest-first sequence of posts: forum[i] = num_comments of post i
  ledger,                       \* DynamoDB table: set of PostIDs
  store,                        \* S3 bucket: set of stored records
  pc,                           \* position of each invocation of lambda_handler
  posts_checked_count,
  skipped_due_to_low_comments,
  eligible_posts_to_process,
  post_idx,
  processed_count,
  skipped_duplicates,
  failed_posts_details,
  analysis_result,
  statusCode,
  calls,                        \* external calls made by the current invocation
  ledger_at_start,              \* ledger contents when the invocation started
  scan_raised,                  \* whether the forum sequence raised during the scan
  invocations,                  \* number of invocations started so far
  environ,                      \* os.environ as each invocation found it
  marked_at_lookup,             \* posts that had a ledger entry when the invocation looked them up
  reply,                        \* the object the model was asked to write
  model_output,                 \* what the model service returned for it
  result,                       \* what invoke_bedrock returned for the response
  COMMENT_LIMIT,                \* cap on the comments stored with a post
  comment_listing,              \* post.comments.list() of the post being processed
  comment_pos,                  \* number of entries of the listing consumed by the loop
  top_comments_for_prompt,
  all_fetched_comments_text_list,
  comments_fetched_count,
  data_to_store,                \* the comment fields of the record, once assembled
  cpc                           \* position in the comment fetch: "loop", "assemble", "done"

cfgvars == <<POST_LIMIT, NEW_POST_CHECK_LIMIT, MIN_COMMENTS_TO_PROCESS, forum>>
runvars == <<pc, posts_checked_count, skipped_due_to_low_comments,
             eligible_posts_to_process, post_idx, processed_count,
             skipped_duplicates, failed_posts_details, analysis_result,
             statusCode, calls, ledger_at_start, scan_raised, invocations, environ, marked_at_lookup>>
pipevars == <<reply, model_output, result>>
commentvars == <<COMMENT_LIMIT, comment_listing, comment_pos, top_comments_for_prompt,
                 all_fetched_comments_text_list, comments_fetched_count, data_to_store, cpc>>
vars == <<cfgvars, pipevars, commentvars, ledger, store, runvars>>

\* ------------------------------------------------------------------ bounds
MaxInvocations == 2
MaxForum == 3
MaxNumComments == 2
MaxPostLimit == 2
MaxCheckLimit == 3
MaxComments == 5
MaxCommentLimit == 4

Runs == {1, 2}

RECURSIVE Forums(_)
RECURSIVE Listings(_)

Min(a, b) == IF a < b THEN a ELSE b

\* ------------------------------------------------------------ Python values
\* A text is a sequence of units: a unit is one character (a brace, a quote, a
\* control character, ...) or an unbroken piece of ordinary text ("abc").
PyStr(s) == [t |-> "str", s |-> s]
PyNum(t, lit) == [t |-> t, lit |-> lit]
PyBool(b) == [t |-> "bool", b |-> b]
PyNone == [t |-> "NoneType"]
PyList(l) == [t |-> "list", l |-> l]
PyDict(items) == [t |-> "dict", items |-> items]

S(literal) == PyStr(<<literal>>)

isinstance(v, types) == v.t \in types

Keys(d) == {d.items[i][1] : i \in DOMAIN d.items}

\* d.get(key, default)
Get(d, key, default) ==
  IF key \in Keys(d)
  THEN d.items[CHOOSE i \in DOMAIN d.items : d.items[i][1] = key][2]
  ELSE default

\* d[key] = value: a new key goes last, a known key keeps its place
SetItem(d, key, value) ==
  IF key \in Keys(d)
  THEN PyDict([i \in DOMAIN d.items |->
                 IF d.items[i][1] = key THEN <<key, value>> ELSE d.items[i]])
  ELSE PyDict(Append(d.items, <<key, value>>))

RECURSIVE Flatten(_)
Flatten(seqs) == IF seqs = <<>> THEN <<>> ELSE Head(seqs) \o Flatten(Tail(seqs))

RECURSIVE Join(_, _)
Join(seqs, sep) ==
  IF seqs = <<>> THEN <<>>
  ELSE IF Len(seqs) = 1 THEN seqs[1]
  ELSE seqs[1] \o sep \o Join(Tail(seqs), sep)

\* the characters of a text, whatever its division into units
RECURSIVE TextOf(_)
TextOf(s) == IF s = <<>> THEN "" ELSE Head(s) \o TextOf(Tail(s))

\* code points of the one-character units that are not ordinary text
CodePoint(c) ==
  CASE c = "^@" -> 0
    [] c = "^A" -> 1
    [] c = "^H" -> 8
    [] c = "\t" -> 9
    [] c = "\n" -> 10
    [] c = "^K" -> 11
    [] c = "\f" -> 12
    [] c = "\r" -> 13
    [] c = "^N" -> 14
    [] c = "^\\" -> 28
    [] c = "^_" -> 31
    [] c = " " -> 32
    [] c = "\"" -> 34
    [] c = "{" -> 123
    [] c = "}" -> 125
    [] OTHER -> 97

HexOf(c) ==
  CASE c = "^@" -> "00"
    [] c = "^A" -> "01"
    [] c = "^H" -> "08"
    [] c = "^K" -> "0b"
    [] c = "\f" -> "0c"
    [] c = "^N" -> "0e"
    [] c = "^\\" -> "1c"
    [] c = "^_" -> "1f"
    [] OTHER -> "00"

\* repr(str), for texts without single quotes of their own
ReprStr(s) ==
  <<"'">> \o Flatten([i \in DOMAIN s |->
                        CASE s[i] = "\n" -> <<"\\", "n">>
                          [] s[i] = "\t" -> <<"\\", "t">>
                          [] s[i] = "\r" -> <<"\\", "r">>
                          [] s[i] = "\\" -> <<"\\", "\\">>
                          [] CodePoint(s[i]) < 32 -> <<"\\", "x", HexOf(s[i])>>
                          [] OTHER -> <<s[i]>>]) \o <<"'">>

RECURSIVE repr(_)
repr(v) ==
  CASE v.t = "str" -> ReprStr(v.s)
    [] v.t \in {"int", "float"} -> <<v.lit>>
    [] v.t = "bool" -> IF v.b THEN <<"True">> ELSE <<"False">>
    [] v.t = "NoneType" -> <<"None">>
    [] v.t = "list" ->
         <<"[">> \o Join([i \in DOMAIN v.l |-> repr(v.l[i])], <<",", " ">>) \o <<"]">>
    [] v.t = "dict" ->
         <<"{">> \o Join([i \in DOMAIN v.items |->
                            ReprStr(v.items[i][1]) \o <<":", " ">> \o repr(v.items[i][2])],
                         <<",", " ">>) \o <<"}">>

\* str(v)
str(v) == IF v.t = "str" THEN v ELSE PyStr(repr(v))

\* ---------------------------------------------------------------- json.dumps
EscapeUnit(c) ==
  CASE c = "\"" -> <<"\\", "\"">>
    [] c = "\\" -> <<"\\", "\\">>
    [] c = "\n" -> <<"\\", "n">>
    [] c = "\r" -> <<"\\", "r">>
    [] c = "\t" -> <<"\\", "t">>
    [] c = "\f" -> <<"\\", "f">>
    [] c = "^H" -> <<"\\", "b">>
    [] CodePoint(c) < 32 -> <<"\\", "u", "00", HexOf(c)>>
    [] OTHER -> <<c>>

DumpsStr(s) == <<"\"">> \o Flatten([i \in DOMAIN s |-> EscapeUnit(s[i])]) \o <<"\"">>

RECURSIVE dumps(_)
dumps(v) ==
  CASE v.t = "str" -> DumpsStr(v.s)
    [] v.t \in {"int", "float"} -> <<v.lit>>
    [] v.t = "bool" -> IF v.b THEN <<"true">> ELSE <<"false">>
    [] v.t = "NoneType" -> <<"null">>
    [] v.t = "list" ->
         <<"[">> \o Join([i \in DOMAIN v.l |-> dumps(v.l[i])], <<",", " ">>) \o <<"]">>
    [] v.t = "dict" ->
         <<"{">> \o Join([i \in DOMAIN v.items |->
                            DumpsStr(v.items[i][1]) \o <<":", " ">> \o dumps(v.items[i][2])],
                         <<",", " ">>) \o <<"}">>

\* ---------------------------------------------------------------- json.loads
At(s, i) == IF i \in DOMAIN s THEN s[i] ELSE ""

JsonWhitespace == {" ", "\t", "\n", "\r"}

RECURSIVE SkipWhitespace(_, _)
SkipWhitespace(s, i) ==
  IF At(s, i) \in JsonWhitespace THEN SkipWhitespace(s, i + 1) ELSE i

Ok(val, end) == [ok |-> TRUE, val |-> val, end |-> end]
JSONDecodeError(msg) == [ok |-> FALSE, msg |-> msg]

Unescaped(esc) ==
  CASE esc = "n" -> "\n"
    [] esc = "r" -> "\r"
    [] esc = "t" -> "\t"
    [] esc = "f" -> "\f"
    [] esc = "b" -> "^H"
    [] OTHER -> esc

\* the character of \u00XX, "" when XX is not two hexadecimal digits
UnicodeOf(hex) ==
  CASE hex = "00" -> "^@"
    [] hex = "01" -> "^A"
    [] hex = "08" -> "^H"
    [] hex = "0b" -> "^K"
    [] hex = "0c" -> "\f"
    [] hex = "0e" -> "^N"
    [] hex = "1c" -> "^\\"
    [] hex = "1f" -> "^_"
    [] OTHER -> ""

\* the string whose opening quote is at i - 1
RECURSIVE scanstring(_, _, _, _)
scanstring(s, i, strict, acc) ==
  LET c == At(s, i) IN
  CASE c = "" -> JSONDecodeError("Unterminated string starting at")
    [] c = "\"" -> Ok(acc, i + 1)
    [] c = "\\" ->
         LET esc == At(s, i + 1) IN
         CASE esc = "" -> JSONDecodeError("Unterminated string starting at")
           [] esc = "u" ->
                IF At(s, i + 2) # "00" \/ UnicodeOf(At(s, i + 3)) = ""
                THEN JSONDecodeError("Invalid \\uXXXX escape")
                ELSE scanstring(s, i + 4, strict, Append(acc, UnicodeOf(At(s, i + 3))))
           [] esc \in {"\"", "\\", "/", "b", "f", "n", "r", "t"} ->
                scanstring(s, i + 2, strict, Append(acc, Unescaped(esc)))
           [] OTHER -> JSONDecodeError("Invalid \\escape")
    [] OTHER ->
         IF strict /\ CodePoint(c) < 32
         THEN JSONDecodeError("Invalid control character at")
         ELSE scanstring(s, i + 1, strict, Append(acc, c))

IntLiterals == {"0", "1", "7"}
FloatLiterals == {"1.5"}

RECURSIVE scan_once(_, _, _)
RECURSIVE JSONObject(_, _, _, _)
RECURSIVE JSONArray(_, _, _, _)

\* the members of an object, the next key's opening quote expected at i
JSONObject(s, i, strict, pairs) ==
  IF At(s, i) # "\""
  THEN JSONDecodeError("Expecting property name enclosed in double quotes")
  ELSE
    LET key == scanstring(s, i + 1, strict, <<>>) IN
    IF ~key.ok THEN key
    ELSE
      LET colon == SkipWhitespace(s, key.end) IN
      IF At(s, colon) # ":" THEN JSONDecodeError("Expecting ':' delimiter")
      ELSE
        LET value == scan_once(s, SkipWhitespace(s, colon + 1), strict) IN
        IF ~value.ok THEN value
        ELSE
          LET next == SkipWhitespace(s, value.end)
              d == SetItem(pairs, key.val, value.val)
          IN CASE At(s, next) = "}" -> Ok(d, next + 1)
               [] At(s, next) = "," -> JSONObject(s, SkipWhitespace(s, next + 1), strict, d)
               [] OTHER -> JSONDecodeError("Expecting ',' delimiter")

\* the elements of an array, the next value expected at i
JSONArray(s, i, strict, values) ==
  LET value == scan_once(s, i, strict) IN
  IF ~value.ok THEN value
  ELSE
    LET next == SkipWhitespace(s, value.end) IN
    CASE At(s, next) = "]" -> Ok(PyList(Append(values, value.val)), next + 1)
      [] At(s, next) = "," ->
           JSONArray(s, SkipWhitespace(s, next + 1), strict, Append(values, value.val))
      [] OTHER -> JSONDecodeError("Expecting ',' delimiter")

scan_once(s, i, strict) ==
  LET c == At(s, i) IN
  CASE c = "\"" ->
         LET str_ == scanstring(s, i + 1, strict, <<>>) IN
         IF str_.ok THEN Ok(PyStr(str_.val), str_.end) ELSE str_
    [] c = "{" ->
         LET first == SkipWhitespace(s, i + 1) IN
         IF At(s, first) = "}" THEN Ok(PyDict(<<>>), first + 1)
         ELSE JSONObject(s, first, strict, PyDict(<<>>))
    [] c = "[" ->
         LET first == SkipWhitespace(s, i + 1) IN
         IF At(s, first) = "]" THEN Ok(PyList(<<>>), first + 1)
         ELSE JSONArray(s, first, strict, <<>>)
    [] c = "null" -> Ok(PyNone, i + 1)
    [] c = "true" -> Ok(PyBool(TRUE), i + 1)
    [] c = "false" -> Ok(PyBool(FALSE), i + 1)
    [] c \in IntLiterals -> Ok(PyNum("int", c), i + 1)
    [] c \in FloatLiterals -> Ok(PyNum("float", c), i + 1)
    [] OTHER -> JSONDecodeError("Expecting value")

\* json.loads(s, strict=strict)
loads(s, strict) ==
  LET obj == scan_once(s, SkipWhitespace(s, 1), strict) IN
  IF ~obj.ok THEN obj
  ELSE IF SkipWhitespace(s, obj.end) # Len(s) + 1 THEN JSONDecodeError("Extra data")
  ELSE obj

\* ------------------------------------------------------------ the two regexes
\* \s of the re module, on the units of the model
IsSpace(c) == CodePoint(c) \in (9 .. 13) \cup (28 .. 32)

AllSpace(s, from, to) == \A k \in from .. to : IsSpace(s[k])

Least(set) == CHOOSE n \in set : \A m \in set : n <= m

\* re.search(r'^\s*(\{.*?\})\s*$', text, re.DOTALL): the span, or <<>> for no match
StrictMatch(text) ==
  LET opens == {i \in DOMAIN text : text[i] = "{" /\ AllSpace(text, 1, i - 1)}
      closes == {j \in DOMAIN text : text[j] = "}" /\ AllSpace(text, j + 1, Len(text))}
  IN IF opens = {} \/ {j \in closes : j > Least(opens)} = {} THEN <<>>
     ELSE SubSeq(text, Least(opens), Least({j \in closes : j > Least(opens)}))

\* re.search(r'(\{.*?\})', text, re.DOTALL): the span, or <<>> for no match
LenientMatch(text) ==
  LET starts == {i \in DOMAIN text : text[i] = "{" /\
                   \E j \in DOMAIN text : j > i /\ text[j] = "}"}
  IN IF starts = {} THEN <<>>
     ELSE LET i == Least(starts)
          IN SubSeq(text, i, Least({j \in DOMAIN text : j > i /\ text[j] = "}"}))

Match(text) == IF StrictMatch(text) # <<>> THEN StrictMatch(text) ELSE LenientMatch(text)

\* mutant: the vertical tab (0x0B) is left in the span
Stripped_KeepsVerticalTab(c) == CodePoint(c) \in (0 .. 8) \cup {12} \cup (14 .. 31)

\* re.sub(r'[\x00-\x08\x0B\x0C\x0E-\x1F]', '', span)
Stripped(c) == CodePoint(c) \in (0 .. 8) \cup {11, 12} \cup (14 .. 31)

Sanitize(span) == SelectSeq(span, LAMBDA c : ~Stripped(c))

\* ------------------------------------------------------------ invoke_bedrock
default_problem_explanation_on_error ==
  PyDict(<< <<<<"primary_concepts">>, PyList(<<>>)>>,
            <<<<"explanation">>, S("Error: Bedrock analysis or JSON parsing failed.")>> >>)

default_solution_explanation_on_error_str ==
  S("Error: Bedrock analysis or JSON parsing failed.")

\* mutant: the default categories lose their "Error" tag
default_categories_on_error_Untagged == PyList(<<S("Bedrock Call Failed")>>)

default_categories_on_error == PyList(<<S("Error"), S("Bedrock Call Failed")>>)

Analysis(ps, pe, ss, se, sc) ==
  PyDict(<< <<<<"problem_summary">>, ps>>,
            <<<<"problem_explanation">>, pe>>,
            <<<<"solution_summary">>, ss>>,
            <<<<"solution_explanation">>, se>>,
            <<<<"suggested_categories">>, sc>> >>)

ErrorAnalysis(problem_summary, solution_summary, categories) ==
  Analysis(problem_summary, default_problem_explanation_on_error, solution_summary,
           default_solution_explanation_on_error_str, categories)

\* mutant: the sub-fields of a concept are copied without str()
StandardConcept_Unconverted(concept) ==
  PyDict(<< <<<<"name">>, Get(concept, <<"name">>, S("N/A"))>>,
            <<<<"definition">>, Get(concept, <<"definition">>, S("N/A"))>>,
            <<<<"use_case">>, Get(concept, <<"use_case">>, S("N/A"))>>,
            <<<<"how_it_functions">>, Get(concept, <<"how_it_functions">>, S("N/A"))>> >>)

\* mutant: the name of a concept is lost
StandardConcept_Nameless(concept) ==
  PyDict(<< <<<<"name">>, S("N/A")>>,
            <<<<"definition">>, str(Get(concept, <<"definition">>, S("N/A")))>>,
            <<<<"use_case">>, str(Get(concept, <<"use_case">>, S("N/A")))>>,
            <<<<"how_it_functions">>, str(Get(concept, <<"how_it_functions">>, S("N/A")))>> >>)

StandardConcept(concept) ==
  PyDict(<< <<<<"name">>, str(Get(concept, <<"name">>, S("N/A")))>>,
            <<<<"definition">>, str(Get(concept, <<"definition">>, S("N/A")))>>,
            <<<<"use_case">>, str(Get(concept, <<"use_case">>, S("N/A")))>>,
            <<<<"how_it_functions">>, str(Get(concept, <<"how_it_functions">>, S("N/A")))>> >>)

StandardProblemExplanation(pe_val) ==
  IF isinstance(pe_val, {"dict"})
  THEN LET concepts_list == Get(pe_val, <<"primary_concepts">>, PyList(<<>>))
           explanation == str(Get(pe_val, <<"explanation">>,
                                  Get(pe_val, <<"relevance_to_problem">>,
                                      S("N/A - Explanation missing"))))
           concepts == IF isinstance(concepts_list, {"list"})
                       THEN SelectSeq(concepts_list.l, LAMBDA c : isinstance(c, {"dict"}))
                       ELSE <<>>
       IN PyDict(<< <<<<"primary_concepts">>,
                      PyList([i \in DOMAIN concepts |-> StandardConcept(concepts[i])])>>,
                    <<<<"explanation">>, explanation>> >>)
  ELSE PyDict(<< <<<<"primary_concepts">>, PyList(<<>>)>>,
                 <<<<"explanation">>, S("N/A - Content missing")>> >>)

\* mutant: an object is converted with str() instead of json.dumps
StandardSolutionExplanation_Repr(se_val) ==
  IF isinstance(se_val, {"dict"}) THEN str(se_val)
  ELSE IF isinstance(se_val, {"str"}) THEN se_val
  ELSE default_solution_explanation_on_error_str

StandardSolutionExplanation(se_val) ==
  IF isinstance(se_val, {"dict"}) THEN PyStr(dumps(se_val))
  ELSE IF isinstance(se_val, {"str"}) THEN se_val
  ELSE default_solution_explanation_on_error_str

StandardCategories(sc_val) ==
  IF isinstance(sc_val, {"list"})
  THEN LET kept == SelectSeq(sc_val.l,
                             LAMBDA item : isinstance(item, {"str", "int", "float", "bool"}))
       IN PyList([i \in DOMAIN kept |-> str(kept[i])])
  ELSE PyList(<<S("N/A - Invalid type or key missing")>>)

\* the "Standardize and Validate Parsed JSON" block
Standardize(analysis_json) ==
  Analysis(str(Get(analysis_json, <<"problem_summary">>, S("N/A - Key missing or invalid type"))),
           StandardProblemExplanation(Get(analysis_json, <<"problem_explanation">>, PyDict(<<>>))),
           str(Get(analysis_json, <<"solution_summary">>, S("N/A - Key missing or invalid type"))),
           StandardSolutionExplanation(Get(analysis_json, <<"solution_explanation">>, PyNone)),
           StandardCategories(Get(analysis_json, <<"suggested_categories">>, PyNone)))

\* from the text of the response to the record
ExtractAnalysis(analysis_text) ==
  IF analysis_text = <<>>
  THEN ErrorAnalysis(S("Error: Bedrock response did not contain expected text."),
                     S("Error: Bedrock response did not contain expected text."),
                     default_categories_on_error)
  ELSE IF Match(analysis_text) = <<>>
  THEN ErrorAnalysis(S("Error: No JSON object found via regex in Bedrock output."),
                     S("Error: No JSON object found via regex."),
                     PyList(<<S("Error"), S("No JSON Found via Regex")>>))
  ELSE LET analysis_json == loads(Sanitize(Match(analysis_text)), FALSE) IN
       IF ~analysis_json.ok
       THEN ErrorAnalysis(PyStr(<<"Fatal JSON parsing error: ", analysis_json.msg>>),
                          PyStr(<<"Fatal JSON parsing error: ", analysis_json.msg>>),
                          PyList(<<S("Error"), S("Fatal Parsing Failed"), S(analysis_json.msg)>>))
       ELSE Standardize(analysis_json.val)

\* response: what bedrock_runtime.invoke_model and the reading of its body gave
\* (kind "NoModelId": BEDROCK_MODEL_ID is not set and no call is made)
invoke_bedrock(response) ==
  CASE response.kind = "NoModelId" ->
         Analysis(S("Error: BEDROCK_MODEL_ID not configured."),
                  PyDict(<< <<<<"primary_concepts">>, PyList(<<>>)>>,
                            <<<<"explanation">>, S("Error: BEDROCK_MODEL_ID not configured.")>> >>),
                  S("Error: BEDROCK_MODEL_ID not configured."),
                  S("Error: BEDROCK_MODEL_ID not configured."),
                  PyList(<<S("Error"), S("Configuration Issue")>>))
    [] response.kind = "ClientError" ->
         ErrorAnalysis(PyStr(<<"Error: Bedrock API ClientError - ", response.code>>),
                       PyStr(<<"Error: Bedrock API ClientError - ", response.code>>),
                       default_categories_on_error)
    [] response.kind = "Exception" ->
         ErrorAnalysis(PyStr(<<"Error: Unexpected error during Bedrock - ", response.type>>),
                       PyStr(<<"Error: Unexpected error during Bedrock - ", response.type>>),
                       default_categories_on_error)
    [] OTHER -> ExtractAnalysis(response.text)

TextResponse(text) == [kind |-> "text", text |-> text]

\* a reply that follows the prompt's output contract
ContractReply ==
  Analysis(S("x"),
           PyDict(<< <<<<"primary_concepts">>,
                       PyList(<<PyDict(<< <<<<"name">>, S("Lambda")>>,
                                          <<<<"definition">>, S("d")>>,
                                          <<<<"use_case">>, S("u")>>,
                                          <<<<"how_it_functions">>, S("h")>> >>)>>)>>,
                     <<<<"explanation">>, S("y")>> >>),
           S("z"), S("w"), PyList(<<S("EC2")>>))

ClientError(code) == [kind |-> "ClientError", code |-> code]

\* what the model service answers during a run
ModelResponses == {ClientError("ThrottlingException"), TextResponse(dumps(ContractReply))}

\* ---------------------------------------------------------- lambda_handler
Call(p, op, res) == [post |-> p, op |-> op, res |-> res]

\* mutant: the loop takes the eligible posts from the last to the first
CurrentPost_Reversed(r) ==
  eligible_posts_to_process[r][Len(eligible_posts_to_process[r]) + 1 - post_idx[r]]

CurrentPost(r) == eligible_posts_to_process[r][post_idx[r]]

\* mutant: the duplicates are not taken off the number of posts to succeed
FinalStatus_IgnoringDuplicates(failed, processed, eligible, duplicates) ==
  IF processed < Len(eligible) THEN 207 ELSE 200

\* mutant: partial success is reported only if some post was processed
FinalStatus_NeedsSuccess(failed, processed, eligible, duplicates) ==
  IF failed # <<>> /\ processed > 0 THEN 207 ELSE 200

FinalStatus(failed, processed, eligible, duplicates) ==
  IF failed # <<>> /\ processed < Len(eligible) - duplicates THEN 207 ELSE 200

\* the end of one iteration of the processing loop: the next eligible post, or
\* the execution summary after the last one
LoopTail(r, processed, duplicates, failed) ==
  IF post_idx[r] < Len(eligible_posts_to_process[r])
  THEN /\ post_idx' = [post_idx EXCEPT ![r] = @ + 1]
       /\ pc' = [pc EXCEPT ![r] = "dedup"]
       /\ statusCode' = statusCode
  ELSE /\ post_idx' = post_idx
       /\ pc' = [pc EXCEPT ![r] = "done"]
       /\ statusCode' = [statusCode EXCEPT ![r] =
            FinalStatus(failed, processed, eligible_posts_to_process[r], duplicates)]

\* the handler's outer except block
Fatal(r) ==
  /\ pc' = [pc EXCEPT ![r] = "done"]
  /\ statusCode' = [statusCode EXCEPT ![r] = 500]

required_env_vars == <<"DYNAMODB_TABLE_NAME", "S3_BUCKET_NAME", "BEDROCK_MODEL_ID">>

\* the environments an invocation may find: complete, without the model
\* identifier, or empty
Environments ==
  { {"DYNAMODB_TABLE_NAME", "S3_BUCKET_NAME", "BEDROCK_MODEL_ID"},
    {"DYNAMODB_TABLE_NAME", "S3_BUCKET_NAME"},
    {} }

\* mutant: the model identifier is not among the required variables
missing_vars_WithoutModelId(found) ==
  SelectSeq(<<"DYNAMODB_TABLE_NAME", "S3_BUCKET_NAME">>, LAMBDA var : var \notin found)

missing_vars(found) == SelectSeq(required_env_vars, LAMBDA var : var \notin found)

\* the error of the response when variables are missing
error_msg(missing) ==
  <<"Missing required environment variables: ">> \o
  Join([i \in DOMAIN missing |-> <<missing[i]>>], <<", ">>)

\* entry of lambda_handler: the environment check and the run's counters
Start(r) ==
  /\ pc[r] \in {"idle", "done"}
  /\ invocations < MaxInvocations
  /\ invocations' = invocations + 1
  /\ posts_checked_count' = [posts_checked_count EXCEPT ![r] = 0]
  /\ skipped_due_to_low_comments' = [skipped_due_to_low_comments EXCEPT ![r] = 0]
  /\ eligible_posts_to_process' = [eligible_posts_to_process EXCEPT ![r] = <<>>]
  /\ post_idx' = [post_idx EXCEPT ![r] = 1]
  /\ processed_count' = [processed_count EXCEPT ![r] = 0]
  /\ skipped_duplicates' = [skipped_duplicates EXCEPT ![r] = 0]
  /\ failed_posts_details' = [failed_posts_details EXCEPT ![r] = <<>>]
  /\ analysis_result' = [analysis_result EXCEPT ![r] = PyNone]
  /\ calls' = [calls EXCEPT ![r] = {}]
  /\ ledger_at_start' = [ledger_at_start EXCEPT ![r] = ledger]
  /\ scan_raised' = [scan_raised EXCEPT ![r] = FALSE]
  /\ marked_at_lookup' = [marked_at_lookup EXCEPT ![r] = {}]
  /\ \E found \in Environments :
       /\ environ' = [environ EXCEPT ![r] = found]
       /\ IF missing_vars(found) # <<>>
          THEN Fatal(r)
          ELSE /\ pc' = [pc EXCEPT ![r] = "secret"]
               /\ statusCode' = [statusCode EXCEPT ![r] = 0]
  /\ UNCHANGED <<cfgvars, pipevars, commentvars, ledger, store>>

\* get_secret and the construction of the forum and ledger clients
GetSecret(r) ==
  /\ pc[r] = "secret"
  /\ \E raised \in BOOLEAN :
       IF raised
       THEN Fatal(r)
       ELSE /\ pc' = [pc EXCEPT ![r] = "scan"]
            /\ statusCode' = statusCode
  /\ UNCHANGED <<cfgvars, pipevars, commentvars, ledger, store, posts_checked_count,
                 skipped_due_to_low_comments, eligible_posts_to_process, post_idx,
                 processed_count, skipped_duplicates, failed_posts_details,
                 analysis_result, calls, ledger_at_start, scan_raised, invocations, environ, marked_at_lookup>>

\* how many posts subreddit.new(limit=NEW_POST_CHECK_LIMIT) yields
ScanLength == Min(NEW_POST_CHECK_LIMIT, Len(forum))

\* mutant: a post with exactly the threshold number of comments is left out
Qualifies_Strictly(num_comments) == num_comments > MIN_COMMENTS_TO_PROCESS

Qualifies(num_comments) == num_comments >= MIN_COMMENTS_TO_PROCESS

\* mutant: the scan goes on until the list is longer than the target
TargetReached_Late(eligible) == Len(eligible) > POST_LIMIT

TargetReached(eligible) == Len(eligible) >= POST_LIMIT

\* mutant: a post below the threshold is examined without being counted as skipped
ScanPost_SkipUncounted(r) ==
  /\ pc[r] = "scan"
  /\ posts_checked_count[r] < ScanLength
  /\ LET post == posts_checked_count[r] + 1
         eligible == IF Qualifies(forum[post])
                     THEN Append(eligible_posts_to_process[r], post)
                     ELSE eligible_posts_to_process[r]
     IN /\ posts_checked_count' = [posts_checked_count EXCEPT ![r] = post]
        /\ eligible_posts_to_process' = [eligible_posts_to_process EXCEPT ![r] = eligible]
        /\ pc' = [pc EXCEPT ![r] =
             IF Qualifies(forum[post]) /\ TargetReached(eligible) THEN "dedup" ELSE "scan"]
  /\ UNCHANGED <<cfgvars, pipevars, commentvars, ledger, store, skipped_due_to_low_comments, post_idx,
                 processed_count, skipped_duplicates, failed_posts_details, analysis_result,
                 statusCode, calls, ledger_at_start, scan_raised, invocations, environ,
                 marked_at_lookup>>

\* one iteration of the scan loop
ScanPost(r) ==
  /\ pc[r] = "scan"
  /\ posts_checked_count[r] < ScanLength
  /\ LET post == posts_checked_count[r] + 1
         eligible == IF Qualifies(forum[post])
                     THEN Append(eligible_posts_to_process[r], post)
                     ELSE eligible_posts_to_process[r]
     IN /\ posts_checked_count' = [posts_checked_count EXCEPT ![r] = post]
        /\ eligible_posts_to_process' = [eligible_posts_to_process EXCEPT ![r] = eligible]
        /\ skipped_due_to_low_comments' =
             [skipped_due_to_low_comments EXCEPT ![r] =
                IF Qualifies(forum[post]) THEN @ ELSE @ + 1]
        /\ pc' = [pc EXCEPT ![r] =
             IF Qualifies(forum[post]) /\ TargetReached(eligible) THEN "dedup" ELSE "scan"]
  /\ UNCHANGED <<cfgvars, pipevars, commentvars, ledger, store, post_idx, processed_count,
                 skipped_duplicates, failed_posts_details, analysis_result,
                 statusCode, calls, ledger_at_start, scan_raised, invocations, environ, marked_at_lookup>>

\* the sequence is exhausted: the loop ends, and a run with nothing eligible returns
ScanEnd(r) ==
  /\ pc[r] = "scan"
  /\ posts_checked_count[r] = ScanLength
  /\ IF eligible_posts_to_process[r] = <<>>
     THEN /\ pc' = [pc EXCEPT ![r] = "done"]
          /\ statusCode' = [statusCode EXCEPT ![r] = 200]
     ELSE /\ pc' = [pc EXCEPT ![r] = "dedup"]
          /\ statusCode' = statusCode
  /\ UNCHANGED <<cfgvars, pipevars, commentvars, ledger, store, posts_checked_count,
                 skipped_due_to_low_comments, eligible_posts_to_process, post_idx,
                 processed_count, skipped_duplicates, failed_posts_details,
                 analysis_result, calls, ledger_at_start, scan_raised, invocations, environ, marked_at_lookup>>

\* mutant: the scan's except blocks re-raise whatever was gathered
KeepPartial_AlwaysRaise(eligible) == FALSE

\* "if not eligible_posts_to_process: raise" of the scan's except blocks
KeepPartial(eligible) == eligible # <<>>

\* the sequence raises while the next post is fetched
ScanRaise(r) ==
  /\ pc[r] = "scan"
  /\ posts_checked_count[r] < ScanLength
  /\ scan_raised' = [scan_raised EXCEPT ![r] = TRUE]
  /\ IF KeepPartial(eligible_posts_to_process[r])
     THEN /\ pc' = [pc EXCEPT ![r] = "dedup"]
          /\ statusCode' = statusCode
     ELSE Fatal(r)
  /\ UNCHANGED <<cfgvars, pipevars, commentvars, ledger, store, posts_checked_count,
                 skipped_due_to_low_comments, eligible_posts_to_process, post_idx,
                 processed_count, skipped_duplicates, failed_posts_details,
                 analysis_result, calls, ledger_at_start, invocations, environ, marked_at_lookup>>

Failure(p, reason) == [id |-> p, reason |-> reason]

\* mutant: the failure of a post is not recorded
PostFailed_Silently(r, reason) ==
  /\ failed_posts_details' = failed_posts_details
  /\ LoopTail(r, processed_count[r], skipped_duplicates[r], failed_posts_details[r])

\* a failure of the current post: recorded, and the loop goes on
PostFailed(r, reason) ==
  /\ failed_posts_details' = [failed_posts_details EXCEPT ![r] =
       Append(@, Failure(CurrentPost(r), reason))]
  /\ LoopTail(r, processed_count[r], skipped_duplicates[r],
              Append(failed_posts_details[r], Failure(CurrentPost(r), reason)))

\* mutant: the lookup's answer is tested for a key it never holds
LedgerHit_WrongKey(p) == FALSE

\* mutant: the read sees only the entries older than every invocation in progress
LedgerHit_BeforeStart(p) ==
  p \in ledger /\ \A r \in Runs : pc[r] \notin {"idle", "done"} => p \in ledger_at_start[r]

\* 'Item' in response, of a consistent read
LedgerHit(p) == p \in ledger

\* mutant: a duplicate is recorded as a failed post
SkipDuplicate_AsFailure(r) ==
  /\ skipped_duplicates' = skipped_duplicates
  /\ PostFailed(r, "duplicate")

\* the ledger already holds the post: counted, and on to the next post
SkipDuplicate(r) ==
  /\ skipped_duplicates' = [skipped_duplicates EXCEPT ![r] = @ + 1]
  /\ failed_posts_details' = failed_posts_details
  /\ LoopTail(r, processed_count[r], skipped_duplicates[r] + 1, failed_posts_details[r])

\* what the handler does with an exception of get_item
LookupFailed(r, raised) ==
  IF raised = "ClientError"
  THEN /\ PostFailed(r, "DynamoDB check failed")
       /\ skipped_duplicates' = skipped_duplicates
  ELSE /\ Fatal(r)
       /\ UNCHANGED <<skipped_duplicates, failed_posts_details, post_idx>>

\* the dedup gate: get_item on the ledger
DedupCheck(r) ==
  /\ pc[r] = "dedup"
  /\ \E outcome \in {"ok", "ClientError", "Exception"} :
       LET res == IF outcome # "ok" THEN outcome
                  ELSE IF LedgerHit(CurrentPost(r)) THEN "hit" ELSE "miss"
       IN /\ calls' = [calls EXCEPT ![r] = @ \cup {Call(CurrentPost(r), "get_item", res)}]
          /\ marked_at_lookup' = [marked_at_lookup EXCEPT ![r] = @ \cup ({CurrentPost(r)} \cap ledger)]
          /\ CASE res = "hit" -> SkipDuplicate(r)
               [] res = "miss" ->
                    /\ pc' = [pc EXCEPT ![r] = "comments"]
                    /\ UNCHANGED <<skipped_duplicates, failed_posts_details,
                                   post_idx, statusCode>>
               [] OTHER -> LookupFailed(r, res)
  /\ UNCHANGED <<cfgvars, pipevars, commentvars, ledger, store, posts_checked_count,
                 skipped_due_to_low_comments, eligible_posts_to_process,
                 processed_count, analysis_result, ledger_at_start, scan_raised,
                 invocations, environ>>

\* the comment fetch; whatever it raises is handled by one of the two per-post
\* except blocks, which both record the failure and go on to the next post
FetchComments(r) ==
  /\ pc[r] = "comments"
  /\ \E outcome \in {"ok", "PRAWException"} :
       /\ calls' = [calls EXCEPT ![r] = @ \cup {Call(CurrentPost(r), "comments", outcome)}]
       /\ IF outcome = "ok"
          THEN /\ pc' = [pc EXCEPT ![r] = "bedrock"]
               /\ UNCHANGED <<failed_posts_details, post_idx, statusCode>>
          ELSE PostFailed(r, outcome)
  /\ UNCHANGED <<cfgvars, pipevars, commentvars, ledger, store, posts_checked_count,
                 skipped_due_to_low_comments, eligible_posts_to_process,
                 processed_count, skipped_duplicates, analysis_result,
                 ledger_at_start, scan_raised, invocations, environ, marked_at_lookup>>

\* build_bedrock_prompt and invoke_bedrock, which returns a record whatever happens
InvokeModel(r) ==
  /\ pc[r] = "bedrock"
  /\ \E answer \in ModelResponses :
       /\ calls' = [calls EXCEPT ![r] = @ \cup
            {Call(CurrentPost(r), "invoke_model",
                  IF answer.kind = "text" THEN "ok" ELSE answer.kind)}]
       /\ analysis_result' = [analysis_result EXCEPT ![r] = invoke_bedrock(answer)]
  /\ pc' = [pc EXCEPT ![r] = "store"]
  /\ UNCHANGED <<cfgvars, pipevars, commentvars, ledger, store, posts_checked_count,
                 skipped_due_to_low_comments, eligible_posts_to_process, post_idx,
                 processed_count, skipped_duplicates, failed_posts_details,
                 statusCode, ledger_at_start, scan_raised, invocations, environ, marked_at_lookup>>

StoredRecord(p, analysis) == [PostID |-> p, analysis |-> analysis]

\* mutant: the object never reaches the bucket
put_object_Dropped(p, analysis) == store

\* s3_client.put_object: the bucket afterwards
put_object(p, analysis) == store \cup {StoredRecord(p, analysis)}

\* mutant: the write replaces the contents of the table
put_item_Replacing(p) == {p}

\* dynamodb_table.put_item: the table afterwards
put_item(p) == ledger \cup {p}

\* mutant: a put_object that raises has written the object all the same
StoreRecord_WritesThenRaises(r) ==
  /\ pc[r] = "store"
  /\ \E outcome \in {"ok", "ArrowException", "ClientError"} :
       IF outcome = "ArrowException"
       THEN /\ PostFailed(r, outcome)
            /\ UNCHANGED <<store, calls>>
       ELSE /\ calls' = [calls EXCEPT ![r] = @ \cup {Call(CurrentPost(r), "put_object", outcome)}]
            /\ store' = put_object(CurrentPost(r), analysis_result[r])
            /\ IF outcome = "ok"
               THEN /\ pc' = [pc EXCEPT ![r] = "mark"]
                    /\ UNCHANGED <<failed_posts_details, post_idx, statusCode>>
               ELSE PostFailed(r, outcome)
  /\ UNCHANGED <<cfgvars, pipevars, commentvars, ledger, posts_checked_count,
                 skipped_due_to_low_comments, eligible_posts_to_process,
                 processed_count, skipped_duplicates, analysis_result,
                 ledger_at_start, scan_raised, invocations, environ, marked_at_lookup>>

\* record assembly, conversion to the columnar format and put_object
StoreRecord(r) ==
  /\ pc[r] = "store"
  /\ \E outcome \in {"ok", "ArrowException", "ClientError"} :
       IF outcome = "ArrowException"
       THEN /\ PostFailed(r, outcome)
            /\ UNCHANGED <<store, calls>>
       ELSE /\ calls' = [calls EXCEPT ![r] = @ \cup {Call(CurrentPost(r), "put_object", outcome)}]
            /\ IF outcome = "ok"
               THEN /\ store' = put_object(CurrentPost(r), analysis_result[r])
                    /\ pc' = [pc EXCEPT ![r] = "mark"]
                    /\ UNCHANGED <<failed_posts_details, post_idx, statusCode>>
               ELSE /\ PostFailed(r, outcome)
                    /\ store' = store
  /\ UNCHANGED <<cfgvars, pipevars, commentvars, ledger, posts_checked_count,
                 skipped_due_to_low_comments, eligible_posts_to_process,
                 processed_count, skipped_duplicates, analysis_result,
                 ledger_at_start, scan_raised, invocations, environ, marked_at_lookup>>

\* put_item on the ledger, then processed_count += 1
MarkDone(r) ==
  /\ pc[r] = "mark"
  /\ \E outcome \in {"ok", "ClientError"} :
       /\ calls' = [calls EXCEPT ![r] = @ \cup {Call(CurrentPost(r), "put_item", outcome)}]
       /\ IF outcome = "ok"
          THEN /\ ledger' = put_item(CurrentPost(r))
               /\ processed_count' = [processed_count EXCEPT ![r] = @ + 1]
               /\ failed_posts_details' = failed_posts_details
               /\ LoopTail(r, processed_count[r] + 1, skipped_duplicates[r],
                           failed_posts_details[r])
          ELSE /\ PostFailed(r, outcome)
               /\ UNCHANGED <<ledger, processed_count>>
  /\ UNCHANGED <<cfgvars, pipevars, commentvars, store, posts_checked_count,
                 skipped_due_to_low_comments, eligible_posts_to_process,
                 skipped_duplicates, analysis_result, ledger_at_start, scan_raised,
                 invocations, environ, marked_at_lookup>>

RunStep(r) ==
  \/ Start(r)
  \/ GetSecret(r)
  \/ ScanPost(r)
  \/ ScanEnd(r)
  \/ ScanRaise(r)
  \/ DedupCheck(r)
  \/ FetchComments(r)
  \/ InvokeModel(r)
  \/ StoreRecord(r)
  \/ MarkDone(r)

\* ------------------------------------------------------------ specifications
InitRuns ==
  /\ ledger = {}
  /\ store = {}
  /\ pc = [r \in Runs |-> "idle"]
  /\ posts_checked_count = [r \in Runs |-> 0]
  /\ skipped_due_to_low_comments = [r \in Runs |-> 0]
  /\ eligible_posts_to_process = [r \in Runs |-> <<>>]
  /\ post_idx = [r \in Runs |-> 1]
  /\ processed_count = [r \in Runs |-> 0]
  /\ skipped_duplicates = [r \in Runs |-> 0]
  /\ failed_posts_details = [r \in Runs |-> <<>>]
  /\ analysis_result = [r \in Runs |-> PyNone]
  /\ statusCode = [r \in Runs |-> 0]
  /\ calls = [r \in Runs |-> {}]
  /\ ledger_at_start = [r \in Runs |-> {}]
  /\ scan_raised = [r \in Runs |-> FALSE]
  /\ invocations = 0
  /\ environ = [r \in Runs |-> {"DYNAMODB_TABLE_NAME", "S3_BUCKET_NAME", "BEDROCK_MODEL_ID"}]
  /\ marked_at_lookup = [r \in Runs |-> {}]

InitPipe ==
  /\ reply = PyNone
  /\ model_output = TextResponse(<<>>)
  /\ result = PyNone

\* no comment fetch under way
InitNoComments ==
  /\ COMMENT_LIMIT = 10
  /\ comment_listing = <<>>
  /\ comment_pos = 0
  /\ top_comments_for_prompt = <<>>
  /\ all_fetched_comments_text_list = <<>>
  /\ comments_fetched_count = 0
  /\ data_to_store = PyNone
  /\ cpc = "done"

\* Spec: two invocations of lambda_handler, one after the other or overlapping,
\* over one forum and one ledger and bucket
Init ==
  /\ POST_LIMIT = 2
  /\ NEW_POST_CHECK_LIMIT = 3
  /\ MIN_COMMENTS_TO_PROCESS = 2
  /\ forum \in {<<2, 0, 2>>, <<0, 2, 0>>}
  /\ InitRuns
  /\ InitPipe
  /\ InitNoComments

Next == \E r \in Runs : RunStep(r)

Spec == Init /\ [][Next]_vars

\* SpecSeq: the invocations of Spec one after the other, as a schedule whose
\* period exceeds the duration of an invocation produces them: a step is taken
\* by an invocation only while no other invocation is in progress
NoOtherInProgress(r) == \A q \in Runs \ {r} : pc[q] \in {"idle", "done"}

NextSeq == \E r \in Runs : NoOtherInProgress(r) /\ RunStep(r)

SpecSeq == Init /\ [][NextSeq]_vars

\* the default of NEW_POST_CHECK_LIMIT
DEFAULT_NEW_POST_CHECK_LIMIT == 50

\* forums of at most MaxForum posts with at most MaxNumComments comments each
Forums(n) ==
  IF n = 0 THEN {<<>>}
  ELSE Forums(n - 1) \cup
       {Append(f, c) : f \in {g \in Forums(n - 1) : Len(g) = n - 1}, c \in 0..MaxNumComments}

\* a full page of posts of which exactly the first, third and fifth reach the threshold
Stream(threshold) ==
  [i \in 1..DEFAULT_NEW_POST_CHECK_LIMIT |->
     IF i \in {1, 3, 5} THEN threshold ELSE threshold - 1]

\* SpecScan: the eligibility scan of lambda_handler, from the entry of the handler
\* to the end of the scan, under every valid configuration and forum within the
\* bounds
InitScan ==
  /\ POST_LIMIT \in 1..MaxPostLimit
  /\ NEW_POST_CHECK_LIMIT \in 1..MaxCheckLimit \cup {DEFAULT_NEW_POST_CHECK_LIMIT}
  /\ MIN_COMMENTS_TO_PROCESS \in 0..MaxNumComments
  /\ forum \in Forums(MaxForum) \cup
               {Stream(threshold) : threshold \in {MIN_COMMENTS_TO_PROCESS} \ {0}}
  /\ InitRuns
  /\ InitPipe
  /\ InitNoComments

NextScan ==
  \/ Start(1)
  \/ GetSecret(1)
  \/ ScanPost(1)
  \/ ScanEnd(1)
  \/ ScanRaise(1)

SpecScan == InitScan /\ [][NextScan]_vars

\* SpecInvoke: invoke_bedrock applied to one answer of the model service
Absent == [t |-> "absent"]

\* the object with the given keys, less those marked absent
ObjectOf(pairs) == PyDict(SelectSeq(pairs, LAMBDA kv : kv[2].t # "absent"))

Concept(name, definition, use_case, how_it_functions) ==
  PyDict(<< <<<<"name">>, name>>, <<<<"definition">>, definition>>,
            <<<<"use_case">>, use_case>>, <<<<"how_it_functions">>, how_it_functions>> >>)

StructuredExplanations ==
  { PyDict(<< <<<<"primary_concepts">>, PyList(<<>>)>>, <<<<"explanation">>, S("y")>> >>),
    PyDict(<< <<<<"primary_concepts">>,
                PyList(<<Concept(S("Lambda"), S("d"), S("u"), S("h"))>>)>>,
              <<<<"explanation">>, S("y")>> >>),
    PyDict(<< <<<<"explanation">>, PyStr(<<"a ", "\"", "b", "\"", "\n">>)>>,
              <<<<"primary_concepts">>,
                PyList(<<PyDict(<< <<<<"use_case">>, S("u")>>, <<<<"name">>, S("S3")>>,
                                   <<<<"how_it_functions">>, S("h")>>,
                                   <<<<"definition">>, S("d")>> >>),
                         Concept(S("IAM"), S("d"), S("u"), S("h"))>>)>> >>) }

ExplanationOptions ==
  StructuredExplanations \cup
  { Absent, S("y"), PyList(<<S("y")>>),
    PyDict(<< <<<<"relevance_to_problem">>, S("r")>> >>),
    PyDict(<< <<<<"primary_concepts">>, S("Lambda")>>, <<<<"explanation">>, PyNone>> >>),
    PyDict(<< <<<<"primary_concepts">>,
                PyList(<<S("Lambda"),
                         PyDict(<< <<<<"name">>, PyNum("int", "7")>>,
                                   <<<<"definition">>, PyList(<<S("d")>>)>>,
                                   <<<<"extra">>, PyDict(<< <<<<"deep">>, PyDict(<<>>)>> >>)>> >>)>>)>>,
              <<<<"explanation">>, PyBool(TRUE)>> >>) }

SummaryOptions == {Absent, S("x"), PyStr(<<>>), PyNum("int", "7"), PyNone}

SolutionSummaryOptions == {S("z"), PyStr(<<>>), PyList(<<PyBool(FALSE)>>)}

SolutionExplanationOptions ==
  { Absent, S("w"), PyNum("float", "1.5"), PyNone, PyBool(FALSE), PyList(<<S("w")>>),
    PyDict(<< <<<<"text">>, S("abc")>> >>),
    PyDict(<< <<<<"steps">>, PyList(<<S("a"), PyDict(<< <<<<"b">>, PyNone>> >>)>>)>> >>) }

CategoryOptions ==
  { Absent, S("EC2"), PyList(<<>>), PyList(<<S("EC2")>>),
    PyList(<<S("EC2"), S("S3"), S("IAM")>>),
    PyList(<<S("EC2"), S("S3"), S("IAM"), S("Lambda")>>),
    PyList(<<S("EC2"), PyNum("int", "1"), PyNum("float", "1.5"), PyBool(TRUE), PyNone,
             PyList(<<S("S3")>>), PyDict(<<>>)>>) }

\* the objects the model may write
Replies ==
  { ObjectOf(<< <<<<"problem_summary">>, ps>>, <<<<"problem_explanation">>, pe>>,
                <<<<"solution_summary">>, ss>>, <<<<"solution_explanation">>, se>>,
                <<<<"suggested_categories">>, sc>> >>) :
      ps \in SummaryOptions, pe \in ExplanationOptions, ss \in SolutionSummaryOptions,
      se \in SolutionExplanationOptions, sc \in CategoryOptions }

\* what may surround the object in the text of the answer
Envelopes == { <<<<>>, <<>>>>, <<<<" ", "\n">>, <<"\n">>>>, <<<<"Here is the analysis: ">>, <<" Done.">>>> }

\* an object whose string value holds a raw 0x01
RawControlText ==
  <<"{", "\"", "problem_summary", "\"", ":", " ", "\"", "a", "^A", "b", "\"", "}">>

\* an object whose string value holds every control character of the model, raw
AllControlsText ==
  <<"{", "\"", "problem_summary", "\"", ":", " ", "\"", "a", "^@", "^A", "^H", "\t", "\n",
    "^K", "\f", "\r", "^N", "^\\", "^_", "b", "\"", "}">>

\* an object with raw control characters between its tokens
ControlsBetweenTokensText ==
  <<"{", "^A", "\"", "problem_summary", "\"", ":", "^K", "\f", "\"", "x", "\"", "^_", "}">>

\* texts that are not an object in an envelope
RawTexts ==
  { <<>>, <<" ">>, <<"no json here">>, <<"{">>, <<"}", "{">>, <<"{", "}">>,
    <<"{", "\"", "problem_summary", "\"", ":", " ", "\"", "x", "}">>,
    <<"{", "\"", "problem_summary", "\"", " ", "\"", "x", "\"", "}">>,
    <<"{", "problem_summary", ":", " ", "1", "}">>,
    <<"{", "\"", "problem_summary", "\"", ":", " ", "\"", "x", "\"", ",", "}">>,
    <<"{", "\"", "problem_summary", "\"", ":", "}">>,
    <<"{", "\"", "problem_summary", "\"", ":", " ", "\"", "a", "\n", "^A", "b", "\"", "}">>,
    <<"{", "\"", "problem_summary", "\"", ":", " ", "\"", "a", "\\", "q", "\"", "}">>,
    <<"[", "1", "]">>,
    RawControlText, AllControlsText, ControlsBetweenTokensText }

\* errors raised by the call of the service or by the reading of its answer
ServiceFailures ==
  { [kind |-> "NoModelId"], ClientError("ThrottlingException"), ClientError("UnknownError"),
    [kind |-> "Exception", type |-> "EndpointConnectionError"],
    [kind |-> "Exception", type |-> "TypeError"] }

InitInvoke ==
  /\ POST_LIMIT = 1
  /\ NEW_POST_CHECK_LIMIT = 1
  /\ MIN_COMMENTS_TO_PROCESS = 0
  /\ forum = <<>>
  /\ InitRuns
  /\ InitNoComments
  /\ result = PyNone
  /\ \/ /\ reply \in Replies
        /\ \E e \in Envelopes : model_output = TextResponse(e[1] \o dumps(reply) \o e[2])
     \/ /\ reply = PyNone
        /\ model_output \in {TextResponse(t) : t \in RawTexts} \cup ServiceFailures

Invoke ==
  /\ result = PyNone
  /\ result' = invoke_bedrock(model_output)
  /\ UNCHANGED <<cfgvars, reply, model_output, commentvars, ledger, store, runvars>>

NextInvoke == Invoke

SpecInvoke == InitInvoke /\ [][NextInvoke]_vars

\* SpecComments: the comment fetch of one post and the comment fields of its
\* record, under every comment cap and every listing within the bounds
MAX_COMMENTS_FOR_PROMPT == 3

Comment(body) == [kind |-> "Comment", body |-> body]

\* what post.comments.list() may hold once replace_more(limit=0) has dropped
\* the placeholders: comments whose body is missing, a removal marker, or text
CommentEntries ==
  { Comment(PyNone), Comment(PyStr(<<" ", "[removed]", " ">>)),
    Comment(S("[deleted]")), Comment(S("a")), Comment(PyStr(<<" ", "b", "\n">>)) }

\* listings of at most MaxComments entries
Listings(n) ==
  IF n = 0 THEN {<<>>}
  ELSE Listings(n - 1) \cup
       {Append(l, e) : l \in {k \in Listings(n - 1) : Len(k) = n - 1}, e \in CommentEntries}

\* str.strip()
RECURSIVE strip(_)
strip(s) ==
  IF s = <<>> THEN s
  ELSE IF IsSpace(Head(s)) THEN strip(Tail(s))
  ELSE IF IsSpace(s[Len(s)]) THEN strip(SubSeq(s, 1, Len(s) - 1))
  ELSE s

\* top_level_comment.body.strip() if top_level_comment.body else ""
comment_body(entry) ==
  IF entry.body.t = "str" /\ entry.body.s # <<>> THEN strip(entry.body.s) ELSE <<>>

\* mutant: only the empty bodies are left out
Excluded_OnlyEmpty(body) == TextOf(body) = ""

\* not comment_body or comment_body == "[deleted]" or comment_body == "[removed]"
Excluded(body) == TextOf(body) \in {"", "[deleted]", "[removed]"}

InitComments ==
  /\ POST_LIMIT = 1
  /\ NEW_POST_CHECK_LIMIT = 1
  /\ MIN_COMMENTS_TO_PROCESS = 0
  /\ forum = <<>>
  /\ InitRuns
  /\ InitPipe
  /\ COMMENT_LIMIT \in 0..MaxCommentLimit
  /\ comment_listing \in Listings(MaxComments)
  /\ comment_pos = 0
  /\ top_comments_for_prompt = <<>>
  /\ all_fetched_comments_text_list = <<>>
  /\ comments_fetched_count = 0
  /\ data_to_store = PyNone
  /\ cpc = "loop"

\* one iteration of the loop over the listing
CommentStep ==
  /\ cpc = "loop"
  /\ comment_pos < Len(comment_listing)
  /\ comment_pos' = comment_pos + 1
  /\ LET entry == comment_listing[comment_pos + 1] IN
     IF entry.kind = "MoreComments" \/ Excluded(comment_body(entry))
     THEN UNCHANGED <<top_comments_for_prompt, all_fetched_comments_text_list,
                      comments_fetched_count, cpc>>
     ELSE LET top == IF comments_fetched_count < MAX_COMMENTS_FOR_PROMPT
                     THEN Append(top_comments_for_prompt, comment_body(entry))
                     ELSE top_comments_for_prompt
              all == IF comments_fetched_count < COMMENT_LIMIT
                     THEN Append(all_fetched_comments_text_list,
                                 <<"- ">> \o comment_body(entry))
                     ELSE all_fetched_comments_text_list
              count == comments_fetched_count + 1
          IN /\ top_comments_for_prompt' = top
             /\ all_fetched_comments_text_list' = all
             /\ comments_fetched_count' = count
             /\ cpc' = IF count >= COMMENT_LIMIT
                          \/ (count >= MAX_COMMENTS_FOR_PROMPT /\ Len(all) >= COMMENT_LIMIT)
                       THEN "assemble" ELSE "loop"
  /\ UNCHANGED <<cfgvars, pipevars, COMMENT_LIMIT, comment_listing, data_to_store,
                 ledger, store, runvars>>

\* the listing is exhausted
CommentsEnd ==
  /\ cpc = "loop"
  /\ comment_pos = Len(comment_listing)
  /\ cpc' = "assemble"
  /\ UNCHANGED <<cfgvars, pipevars, COMMENT_LIMIT, comment_listing, comment_pos,
                 top_comments_for_prompt, all_fetched_comments_text_list,
                 comments_fetched_count, data_to_store, ledger, store, runvars>>

\* the comment fields of data_to_store
AssembleRecord ==
  /\ cpc = "assemble"
  /\ data_to_store' =
       [FetchedCommentCountForAnalysis |-> comments_fetched_count,
        FetchedCommentsText |-> Join(all_fetched_comments_text_list, <<"\n">>)]
  /\ cpc' = "done"
  /\ UNCHANGED <<cfgvars, pipevars, COMMENT_LIMIT, comment_listing, comment_pos,
                 top_comments_for_prompt, all_fetched_comments_text_list,
                 comments_fetched_count, ledger, store, runvars>>

NextComments ==
  \/ CommentStep
  \/ CommentsEnd
  \/ AssembleRecord

SpecComments == InitComments /\ [][NextComments]_vars

\* ------------------------------------------------------------------ claims
CallsFor(r, p) == {c \in calls[r] : c.post = p}

HasFailure(r, p) ==
  \E i \in DOMAIN failed_posts_details[r] : failed_posts_details[r][i].id = p

\* a call of lambda_handler for the post raised before its ledger write
RaisedBeforeMark(c) ==
  \/ c.op = "get_item" /\ c.res \in {"ClientError", "Exception"}
  \/ c.op = "comments" /\ c.res # "ok"
  \/ c.op = "put_object" /\ c.res # "ok"

C2_DuplicateOnlySkips ==
  [][\A r \in Runs :
       /\ (pc[r] = "dedup" /\ calls'[r] # calls[r] /\ CurrentPost(r) \in ledger) =>
            /\ \E res \in {"hit", "ClientError", "Exception"} :
                 calls'[r] = calls[r] \cup {Call(CurrentPost(r), "get_item", res)}
            /\ ledger' = ledger /\ store' = store
            /\ processed_count'[r] = processed_count[r]
            /\ skipped_due_to_low_comments'[r] = skipped_due_to_low_comments[r]
            /\ Call(CurrentPost(r), "get_item", "hit") \in calls'[r] =>
                 /\ skipped_duplicates'[r] = skipped_duplicates[r] + 1
                 /\ failed_posts_details'[r] = failed_posts_details[r]
                 /\ pc'[r] \in {"dedup", "done"}
                 /\ pc'[r] = "dedup" => post_idx'[r] = post_idx[r] + 1
       /\ \A c \in calls'[r] :
            (c.op = "get_item" /\ c.res = "hit") =>
               {d \in calls'[r] : d.post = c.post} = {c}
    ]_vars

C2_Witness ==
  \E r \in Runs : \E p \in DOMAIN forum :
    /\ Call(p, "get_item", "hit") \in calls[r]
    /\ skipped_duplicates[r] = 1
    /\ processed_count[r] = 0
    /\ failed_posts_details[r] = <<>>
    /\ pc[r] = "done"

\* C3 (as claimed): a post whose model invocation failed with a service error
\* ends Failed: nothing is stored or ledger-marked for it in that invocation, and
\* once the invocation has moved on the failure list holds a record for it.
C3_ModelFailureFailsPost ==
  \A r \in Runs : \A c \in calls[r] :
    (c.op = "invoke_model" /\ c.res = "ClientError") =>
       /\ ~\E d \in CallsFor(r, c.post) : d.op \in {"put_object", "put_item"}
       /\ (pc[r] = "done" \/ CurrentPost(r) # c.post) => HasFailure(r, c.post)

\* C4: an invocation makes no comment fetch, model invocation, storage write or
\* ledger write for a post that had a ledger entry when the invocation started
\* (its lookup never answers "new"); processed_count counts exactly the posts the
\* invocation ledger-marked, none of which had an entry at its start; and an
\* invocation that returned a summary has looked up every such eligible post.
C4_MarkedPostsAreSkipped ==
  \A r \in Runs :
    /\ \A p \in ledger_at_start[r] : \A c \in CallsFor(r, p) :
         c.op = "get_item" /\ c.res # "miss"
    /\ processed_count[r] =
         Cardinality({p \in DOMAIN forum : Call(p, "put_item", "ok") \in calls[r]})
    /\ \A c \in calls[r] : c.op = "put_item" => c.post \notin ledger_at_start[r]
    /\ (pc[r] = "done" /\ statusCode[r] \in {200, 207}) =>
         \A i \in DOMAIN eligible_posts_to_process[r] :
           eligible_posts_to_process[r][i] \in ledger_at_start[r] =>
             \/ Call(eligible_posts_to_process[r][i], "get_item", "hit") \in calls[r]
             \/ Call(eligible_posts_to_process[r][i], "get_item", "ClientError") \in calls[r]

\* the second invocation started after the first had marked its posts, found one
\* of them in the ledger and newly processed another post
C4_Witness ==
  \E p, q \in DOMAIN forum :
    /\ pc[1] = "done" /\ pc[2] = "done"
    /\ Call(p, "put_item", "ok") \in calls[1]
    /\ {c.post : c \in {d \in calls[1] : d.op = "put_item" /\ d.res = "ok"}}
         \subseteq ledger_at_start[2]
    /\ Call(p, "get_item", "hit") \in calls[2]
    /\ Call(q, "put_item", "ok") \in calls[2]
    /\ processed_count[2] = 1

\* C7 (as claimed): whatever the error kind of a failed ledger lookup, the post
\* gets a failure record and the invocation is not aborted.
C7_LookupFailureIsPerPost ==
  \A r \in Runs : \A c \in calls[r] :
    (c.op = "get_item" /\ c.res \in {"ClientError", "Exception"}) =>
       statusCode[r] # 500 /\ HasFailure(r, c.post)

\* C10: at the step where the forum sequence raises during the scan, the posts
\* gathered so far are kept; the invocation ends fatally there (status 500,
\* nothing processed, no ledger or storage call) exactly when none had been
\* gathered, and otherwise goes on to the first gathered post; an invocation that
\* returned its summary after such a failure has handled every gathered post.
C10_ScanFailureKeepsPartial ==
  [][\A r \in Runs :
       /\ (~scan_raised[r] /\ scan_raised'[r]) =>
            /\ eligible_posts_to_process'[r] = eligible_posts_to_process[r]
            /\ (statusCode'[r] = 500) <=> (eligible_posts_to_process[r] = <<>>)
            /\ eligible_posts_to_process[r] = <<>> =>
                 pc'[r] = "done" /\ processed_count'[r] = 0 /\ calls'[r] = {}
            /\ eligible_posts_to_process[r] # <<>> =>
                 pc'[r] = "dedup" /\ post_idx'[r] = 1
       /\ (scan_raised'[r] /\ pc'[r] = "done" /\ statusCode'[r] # 500) =>
            /\ eligible_posts_to_process'[r] # <<>>
            /\ processed_count'[r] + skipped_duplicates'[r]
                 + Len(failed_posts_details'[r]) = Len(eligible_posts_to_process'[r])
    ]_vars

C10_Witness ==
  \E r \in Runs :
    /\ scan_raised[r]
    /\ Len(eligible_posts_to_process[r]) = 1
    /\ processed_count[r] = 1
    /\ pc[r] = "done"
    /\ statusCode[r] = 200

\* the qualifying posts among the first n of the forum, newest first
RECURSIVE QualifyingUpTo(_)
QualifyingUpTo(n) ==
  IF n = 0 THEN <<>>
  ELSE IF forum[n] >= MIN_COMMENTS_TO_PROCESS
       THEN Append(QualifyingUpTo(n - 1), n)
       ELSE QualifyingUpTo(n - 1)

\* C8: in every state the eligible list is exactly the posts with num_comments >=
\* MIN_COMMENTS_TO_PROCESS among the posts examined so far, in sequence order;
\* it has at most POST_LIMIT posts; at most NEW_POST_CHECK_LIMIT posts have been
\* examined; and once the list holds POST_LIMIT posts the scan is over and the
\* last post examined is the one that completed the list.  Each scan step
\* examines exactly the next post of the sequence.
C8_ScanBounds ==
  [][\A r \in Runs :
       /\ Len(eligible_posts_to_process'[r]) <= POST_LIMIT
       /\ posts_checked_count'[r] <= NEW_POST_CHECK_LIMIT
       /\ posts_checked_count'[r] <= Len(forum)
       /\ eligible_posts_to_process'[r] = QualifyingUpTo(posts_checked_count'[r])
       /\ Len(eligible_posts_to_process'[r]) = POST_LIMIT =>
            /\ pc'[r] # "scan"
            /\ eligible_posts_to_process'[r][POST_LIMIT] = posts_checked_count'[r]
       /\ posts_checked_count'[r] \in {0, posts_checked_count[r], posts_checked_count[r] + 1}
       /\ posts_checked_count'[r] = posts_checked_count[r] + 1 =>
            pc[r] = "scan" /\ Len(eligible_posts_to_process[r]) < POST_LIMIT
                           /\ posts_checked_count[r] < NEW_POST_CHECK_LIMIT
    ]_vars

\* the scan stopped on reaching the target, before the budget or the forum ran out
C8_Witness ==
  /\ POST_LIMIT = 2
  /\ pc[1] = "dedup"
  /\ Len(eligible_posts_to_process[1]) = 2
  /\ skipped_due_to_low_comments[1] = 1
  /\ posts_checked_count[1] = 3
  /\ posts_checked_count[1] < NEW_POST_CHECK_LIMIT
  /\ posts_checked_count[1] < Len(forum)

\* the scenario: a page of 50 posts, positions 1, 3 and 5 eligible, target 2
Scenario ==
  /\ MIN_COMMENTS_TO_PROCESS > 0
  /\ forum = Stream(MIN_COMMENTS_TO_PROCESS)
  /\ NEW_POST_CHECK_LIMIT = Len(forum)
  /\ POST_LIMIT = 2

\* C9 (amended): in the scenario the scan, when it ends without raising, has
\* gathered exactly posts 1 and 3, has examined exactly 3 posts, and its
\* skipped-for-low-comments count is 1 (position 2; position 4 is not examined).
C9_ScenarioStopsAtThird ==
  [][(Scenario /\ pc[1] = "scan" /\ pc'[1] # "scan" /\ ~scan_raised'[1]) =>
       /\ eligible_posts_to_process'[1] = <<1, 3>>
       /\ posts_checked_count'[1] = 3
       /\ skipped_due_to_low_comments'[1] = 1
    ]_vars

C9_Witness ==
  /\ Scenario
  /\ pc[1] = "dedup"
  /\ ~scan_raised[1]
  /\ eligible_posts_to_process[1] = <<1, 3>>
  /\ posts_checked_count[1] = 3
  /\ skipped_due_to_low_comments[1] = 1

\* C9 (as claimed): in the scenario the scan, when it ends without raising, has
\* gathered exactly posts 1 and 3, has examined no more than 5 posts, and its
\* skipped-for-low-comments count is 2 (positions 2 and 4).
C9_ScenarioSkipsTwo ==
  [][(Scenario /\ pc[1] = "scan" /\ pc'[1] # "scan" /\ ~scan_raised'[1]) =>
       /\ eligible_posts_to_process'[1] = <<1, 3>>
       /\ posts_checked_count'[1] <= 5
       /\ skipped_due_to_low_comments'[1] = 2
    ]_vars

IsStr(v) == v.t = "str"

IsConcept(c) ==
  /\ c.t = "dict"
  /\ Len(c.items) = 4
  /\ Keys(c) = {<<"name">>, <<"definition">>, <<"use_case">>, <<"how_it_functions">>}
  /\ \A i \in DOMAIN c.items : IsStr(c.items[i][2])

IsProblemExplanation(pe) ==
  /\ pe.t = "dict"
  /\ Len(pe.items) = 2
  /\ Keys(pe) = {<<"primary_concepts">>, <<"explanation">>}
  /\ Get(pe, <<"primary_concepts">>, PyNone).t = "list"
  /\ \A i \in DOMAIN Get(pe, <<"primary_concepts">>, PyNone).l :
       IsConcept(Get(pe, <<"primary_concepts">>, PyNone).l[i])
  /\ IsStr(Get(pe, <<"explanation">>, PyNone))

IsAnalysisResult(a) ==
  /\ a.t = "dict"
  /\ Len(a.items) = 5
  /\ Keys(a) = {<<"problem_summary">>, <<"problem_explanation">>, <<"solution_summary">>,
                <<"solution_explanation">>, <<"suggested_categories">>}
  /\ IsStr(Get(a, <<"problem_summary">>, PyNone))
  /\ IsProblemExplanation(Get(a, <<"problem_explanation">>, PyNone))
  /\ IsStr(Get(a, <<"solution_summary">>, PyNone))
  /\ IsStr(Get(a, <<"solution_explanation">>, PyNone))
  /\ Get(a, <<"suggested_categories">>, PyNone).t = "list"
  /\ \A i \in DOMAIN Get(a, <<"suggested_categories">>, PyNone).l :
       IsStr(Get(a, <<"suggested_categories">>, PyNone).l[i])

\* C5: whatever the model service answered (no text, text without an object,
\* malformed JSON, an object with keys missing, wrongly typed or unexpectedly
\* nested, or an error), invoke_bedrock returns, and what it returns is a record
\* with exactly the five keys, of the declared types.
C5_AlwaysAnAnalysisResult ==
  [][result = PyNone => result' # PyNone /\ IsAnalysisResult(result')]_vars

\* an object with a missing summary, a wrongly typed concept list entry, a nested
\* solution explanation and mixed categories went through
C5_Witness ==
  /\ result # PyNone
  /\ reply # PyNone
  /\ <<"problem_summary">> \notin Keys(reply)
  /\ Get(reply, <<"solution_explanation">>, PyNone).t = "dict"
  /\ Get(reply, <<"suggested_categories">>, PyNone).t = "list"
  /\ Len(Get(reply, <<"suggested_categories">>, PyNone).l) = 7
  /\ Get(reply, <<"problem_explanation">>, PyNone).t = "dict"
  /\ Get(Get(reply, <<"problem_explanation">>, PyNone), <<"explanation">>, PyNone).t = "bool"
  /\ Len(Get(Get(result, <<"problem_explanation">>, PyNone), <<"primary_concepts">>, PyNone).l) = 1
  /\ Len(Get(result, <<"suggested_categories">>, PyNone).l) = 4

\* equality of Python values: dicts compare by key, whatever the insertion order
RECURSIVE PyEq(_, _)
PyEq(a, b) ==
  /\ a.t = b.t
  /\ CASE a.t = "str" -> TextOf(a.s) = TextOf(b.s)
       [] a.t \in {"int", "float"} -> a.lit = b.lit
       [] a.t = "bool" -> a.b = b.b
       [] a.t = "list" ->
            Len(a.l) = Len(b.l) /\ \A i \in DOMAIN a.l : PyEq(a.l[i], b.l[i])
       [] a.t = "dict" ->
            /\ Len(a.items) = Len(b.items)
            /\ \A i \in DOMAIN a.items :
                 \E j \in DOMAIN b.items :
                   /\ TextOf(a.items[i][1]) = TextOf(b.items[j][1])
                   /\ PyEq(a.items[i][2], b.items[j][2])
       [] OTHER -> TRUE

\* string summaries, string solution explanation, at most 3 string categories
WellFormedButExplanation(a) ==
  /\ a.t = "dict"
  /\ Len(a.items) = 5
  /\ IsStr(Get(a, <<"problem_summary">>, PyNone))
  /\ <<"problem_explanation">> \in Keys(a)
  /\ IsStr(Get(a, <<"solution_summary">>, PyNone))
  /\ IsStr(Get(a, <<"solution_explanation">>, PyNone))
  /\ Get(a, <<"suggested_categories">>, PyNone).t = "list"
  /\ Len(Get(a, <<"suggested_categories">>, PyNone).l) <= 3
  /\ \A i \in DOMAIN Get(a, <<"suggested_categories">>, PyNone).l :
       IsStr(Get(a, <<"suggested_categories">>, PyNone).l[i])

\* the answer is the object and nothing else
Bare == model_output = TextResponse(dumps(reply))

\* C6 (amended): normalizing a well-formed AnalysisResult whose problem_explanation
\* is the structured object returns it unchanged, and so does extracting and
\* normalizing its text; a plain-string problem_explanation is not kept: it is
\* replaced by the object with no concepts and the explanation
\* "N/A - Content missing", the other four fields being returned unchanged.
C6_StructuredRoundTrip ==
  (reply # PyNone /\ WellFormedButExplanation(reply)) =>
     LET pe == Get(reply, <<"problem_explanation">>, PyNone)
         expected ==
           IF IsProblemExplanation(pe) THEN reply
           ELSE SetItem(reply, <<"problem_explanation">>,
                        PyDict(<< <<<<"primary_concepts">>, PyList(<<>>)>>,
                                  <<<<"explanation">>, S("N/A - Content missing")>> >>))
     IN (IsProblemExplanation(pe) \/ IsStr(pe)) =>
          /\ PyEq(Standardize(reply), expected)
          /\ (Bare /\ result # PyNone) => PyEq(result, expected)

C6_Witness ==
  /\ reply # PyNone
  /\ WellFormedButExplanation(reply)
  /\ IsProblemExplanation(Get(reply, <<"problem_explanation">>, PyNone))
  /\ Len(Get(Get(reply, <<"problem_explanation">>, PyNone), <<"primary_concepts">>, PyNone).l) = 2
  /\ Len(Get(reply, <<"suggested_categories">>, PyNone).l) = 3
  /\ Bare
  /\ result # PyNone
  /\ PyEq(result, reply)

\* C6 (as claimed): normalizing a well-formed AnalysisResult, whether its
\* problem_explanation is a plain string or the structured object, returns it
\* unchanged, and so does extracting and normalizing its text.
C6_RoundTrip ==
  (reply # PyNone /\ WellFormedButExplanation(reply)) =>
     LET pe == Get(reply, <<"problem_explanation">>, PyNone)
     IN (IsProblemExplanation(pe) \/ IsStr(pe)) =>
          /\ PyEq(Standardize(reply), reply)
          /\ (Bare /\ result # PyNone) => PyEq(result, reply)

\* the invocation is over and had gathered eligible posts
Finished(r) == pc[r] = "done" /\ eligible_posts_to_process[r] # <<>>

\* the eligible posts that ended newly processed or skipped as duplicates
Succeeded(r) == processed_count[r] + skipped_duplicates[r]

\* C11: an invocation that gathered eligible posts returns 200 if and only if
\* every one of them ended newly processed or skipped as a duplicate; and when it
\* returns its execution summary, 200 if and only if its failure list is empty.
C11_FullSuccessIffNoFailure ==
  \A r \in Runs :
    Finished(r) =>
      /\ statusCode[r] = 200 <=> Succeeded(r) = Len(eligible_posts_to_process[r])
      /\ statusCode[r] \in {200, 207} =>
           (statusCode[r] = 200 <=> failed_posts_details[r] = <<>>)

C11_Witness ==
  \E r \in Runs :
    /\ Finished(r)
    /\ statusCode[r] = 200
    /\ processed_count[r] = 1
    /\ skipped_duplicates[r] = 1

\* C12 (amended): 207 is returned exactly when the invocation reaches its
\* execution summary with at least one failed post, whether or not any other
\* post succeeded: an invocation all of whose eligible posts failed returns 207.
C12_PartialIffSomeFailure ==
  \A r \in Runs :
    Finished(r) =>
      /\ statusCode[r] = 207 <=>
           (statusCode[r] # 500 /\ failed_posts_details[r] # <<>>)
      /\ statusCode[r] = 207 =>
           Len(failed_posts_details[r]) + Succeeded(r) = Len(eligible_posts_to_process[r])

\* every eligible post failed, and the invocation returned 207
C12_Witness ==
  \E r \in Runs :
    /\ Finished(r)
    /\ statusCode[r] = 207
    /\ Succeeded(r) = 0
    /\ Len(failed_posts_details[r]) = Len(eligible_posts_to_process[r])

\* C12 (as claimed): 207 is returned exactly when at least one eligible post
\* failed and at least one other eligible post was newly processed or skipped as
\* a duplicate.
C12_PartialIffFailureAndSuccess ==
  \A r \in Runs :
    (Finished(r) /\ statusCode[r] # 500) =>
      (statusCode[r] = 207 <=> (failed_posts_details[r] # <<>> /\ Succeeded(r) >= 1))

\* C13: an invocation that finds the table name, the bucket name or the model
\* identifier missing returns 500 at its entry with an error that names each
\* missing variable, and stays there: it never reaches the credential fetch, the
\* scan of the forum or the processing loop, so that it makes no call and
\* examines no post; the step that ends it changes neither ledger nor bucket.
C13_MissingConfigurationIsFatal ==
  [][\A r \in Runs :
       (\E var \in {"DYNAMODB_TABLE_NAME", "S3_BUCKET_NAME", "BEDROCK_MODEL_ID"} :
          var \notin environ'[r]) =>
            /\ pc'[r] = "done"
            /\ statusCode'[r] = 500
            /\ calls'[r] = {}
            /\ posts_checked_count'[r] = 0
            /\ eligible_posts_to_process'[r] = <<>>
            /\ processed_count'[r] = 0
            /\ ~scan_raised'[r]
            /\ \A var \in {"DYNAMODB_TABLE_NAME", "S3_BUCKET_NAME", "BEDROCK_MODEL_ID"} :
                 var \notin environ'[r] <=>
                   \E i \in DOMAIN error_msg(missing_vars(environ'[r])) :
                     error_msg(missing_vars(environ'[r]))[i] = var
            /\ environ'[r] # environ[r] => ledger' = ledger /\ store' = store
    ]_vars

\* only the model identifier is missing; the other invocation has written meanwhile
C13_Witness ==
  \E r \in Runs :
    /\ environ[r] = {"DYNAMODB_TABLE_NAME", "S3_BUCKET_NAME"}
    /\ pc[r] = "done"
    /\ statusCode[r] = 500
    /\ ledger # {}

\* C14 (as claimed): suggested_categories of every record returned by
\* invoke_bedrock is a list of at most 3 elements, all of them strings.
C14_AtMostThreeCategories ==
  result # PyNone =>
    /\ Get(result, <<"suggested_categories">>, PyNone).t = "list"
    /\ Len(Get(result, <<"suggested_categories">>, PyNone).l) <= 3
    /\ \A i \in DOMAIN Get(result, <<"suggested_categories">>, PyNone).l :
         IsStr(Get(result, <<"suggested_categories">>, PyNone).l[i])

\* C15 (as claimed): problem_summary and solution_summary of every record
\* returned by invoke_bedrock are non-empty strings.
C15_SummariesNonEmpty ==
  result # PyNone =>
    \A key \in {<<"problem_summary">>, <<"solution_summary">>} :
      /\ IsStr(Get(result, key, PyNone))
      /\ TextOf(Get(result, key, PyNone).s) # ""

\* C16 (as claimed): when the object the model wrote lacks problem_summary
\* (respectively solution_summary) or carries a value for it that is not a
\* string, the normalized field is "N/A - Key missing or invalid type"; a string
\* value is kept verbatim.
C16_SummarySentinelOrVerbatim ==
  (reply # PyNone /\ Bare /\ result # PyNone) =>
    \A key \in {<<"problem_summary">>, <<"solution_summary">>} :
      IF Get(reply, key, Absent).t = "str"
      THEN PyEq(Get(result, key, PyNone), Get(reply, key, Absent))
      ELSE PyEq(Get(result, key, PyNone), S("N/A - Key missing or invalid type"))

\* the answer is an object the model wrote, inside brace-free prose or whitespace
Embedded ==
  /\ reply # PyNone
  /\ \E e \in Envelopes : model_output = TextResponse(e[1] \o dumps(reply) \o e[2])

\* C17 (as claimed): for an answer made of brace-free prose, one valid JSON
\* object (possibly with nested objects) and brace-free prose, the record returned
\* is the normalization of that object.
C17_EmbeddedObjectIsExtracted ==
  (Embedded /\ result # PyNone) => PyEq(result, Standardize(reply))

Categories(a) == Get(a, <<"suggested_categories">>, PyNone).l

\* C18: for a text answer, each extraction failure gives a record of the five
\* typed fields whose categories start with "Error" followed by the tag of the
\* failure: "Bedrock Call Failed" for an empty text, "No JSON Found via Regex"
\* when no brace span is found, which is the case of every non-empty text
\* without "{", and "Fatal Parsing Failed" (then the parser's message) for a span
\* that does not parse.
C18_ExtractionFailuresAreTagged ==
  (model_output.kind = "text" /\ result # PyNone) =>
    LET text == model_output.text IN
    /\ IsAnalysisResult(result)
    /\ text = <<>> =>
         Categories(result) = <<S("Error"), S("Bedrock Call Failed")>>
    /\ (text # <<>> /\ (Match(text) = <<>> \/ \A i \in DOMAIN text : text[i] # "{")) =>
         /\ Categories(result) = <<S("Error"), S("No JSON Found via Regex")>>
         /\ Get(result, <<"problem_summary">>, PyNone) =
              S("Error: No JSON object found via regex in Bedrock output.")
    /\ (text # <<>> /\ Match(text) # <<>> /\ ~loads(Sanitize(Match(text)), FALSE).ok) =>
         /\ Len(Categories(result)) = 3
         /\ Categories(result)[1] = S("Error")
         /\ Categories(result)[2] = S("Fatal Parsing Failed")
         /\ Categories(result)[3] = S(loads(Sanitize(Match(text)), FALSE).msg)

\* a text without any brace was answered
C18_Witness ==
  /\ model_output = TextResponse(<<"no json here">>)
  /\ result # PyNone
  /\ Categories(result) = <<S("Error"), S("No JSON Found via Regex")>>

\* C19: the normalized solution_explanation of a parsed object is a string: a
\* string value verbatim, for an object value its JSON serialization, and for any
\* other value or a missing key the default "Error: Bedrock analysis or JSON
\* parsing failed.".
C19_SolutionExplanationIsString ==
  (reply # PyNone /\ Bare /\ result # PyNone) =>
    LET se_val == Get(reply, <<"solution_explanation">>, Absent)
        normalized == Get(result, <<"solution_explanation">>, PyNone)
    IN /\ IsStr(normalized)
       /\ se_val.t = "str" => PyEq(normalized, se_val)
       /\ se_val.t = "dict" => TextOf(normalized.s) = TextOf(dumps(se_val))
       /\ se_val = PyDict(<< <<<<"text">>, S("abc")>> >>) =>
            TextOf(normalized.s) = "{\"text\": \"abc\"}"
       /\ se_val.t \notin {"str", "dict"} =>
            TextOf(normalized.s) = "Error: Bedrock analysis or JSON parsing failed."

\* the object {"text": "abc"} came back as its serialization
C19_Witness ==
  /\ reply # PyNone
  /\ Bare
  /\ Get(reply, <<"solution_explanation">>, Absent) = PyDict(<< <<<<"text">>, S("abc")>> >>)
  /\ result # PyNone
  /\ TextOf(Get(result, <<"solution_explanation">>, PyNone).s) = "{\"text\": \"abc\"}"

\* C20: at the step where put_item raises for a post, a failure record for the
\* post is appended, processed_count and the ledger are unchanged, the record
\* written by put_object stays in the bucket, and the invocation goes on to the
\* next eligible post or, after the last one, to its summary.
C20_LedgerWriteFailureFailsPost ==
  [][\A r \in Runs :
       (pc[r] = "mark" /\ Call(CurrentPost(r), "put_item", "ClientError") \in calls'[r]) =>
          /\ Len(failed_posts_details'[r]) = Len(failed_posts_details[r]) + 1
          /\ failed_posts_details'[r][Len(failed_posts_details'[r])].id = CurrentPost(r)
          /\ SubSeq(failed_posts_details'[r], 1, Len(failed_posts_details[r]))
               = failed_posts_details[r]
          /\ processed_count'[r] = processed_count[r]
          /\ ledger' = ledger
          /\ store' = store
          /\ \E rec \in store' : rec.PostID = CurrentPost(r)
          /\ Call(CurrentPost(r), "put_object", "ok") \in calls'[r]
          /\ IF post_idx[r] < Len(eligible_posts_to_process[r])
             THEN pc'[r] = "dedup" /\ post_idx'[r] = post_idx[r] + 1
             ELSE pc'[r] = "done" /\ statusCode'[r] = 207
    ]_vars

\* the ledger write of the first post failed, its record is stored without a
\* ledger entry, and the next post was processed
C20_Witness ==
  \E r \in Runs : \E p, q \in DOMAIN forum :
    /\ Call(p, "put_item", "ClientError") \in calls[r]
    /\ p \notin ledger
    /\ \E rec \in store : rec.PostID = p
    /\ Call(q, "put_item", "ok") \in calls[r]
    /\ eligible_posts_to_process[r] = <<p, q>>
    /\ processed_count[r] = 1
    /\ pc[r] = "done"

\* the post has a record in the bucket and no entry in the ledger
Orphaned(p) == p \notin ledger /\ \E rec \in store : rec.PostID = p

\* C21: with the invocations one after the other, no step removes an entry from
\* the ledger, and a successful put_item is made only for a post that has no
\* entry, so that each entry is written once and never overwritten; a post that
\* has a stored record but no entry is not taken for a duplicate by the lookup of
\* a later invocation (the lookup answers "new" or raises), and the invocation
\* that then marks it has written its record to the bucket again before.
C21_LedgerWrittenOnce ==
  [][/\ ledger \subseteq ledger'
     /\ \A r \in Runs :
          LET p == eligible_posts_to_process[r][post_idx[r]] IN
          /\ (pc[r] = "mark" /\ processed_count'[r] = processed_count[r] + 1) =>
               /\ p \notin ledger
               /\ ledger' = ledger \cup {p}
               /\ Call(p, "put_object", "ok") \in calls[r]
               /\ \E rec \in store : rec.PostID = p
          /\ (pc[r] = "dedup" /\ calls'[r] # calls[r] /\ Orphaned(p)) =>
               /\ Call(p, "get_item", "hit") \notin calls'[r]
               /\ skipped_duplicates'[r] = skipped_duplicates[r]
               /\ Call(p, "get_item", "miss") \in calls'[r] => pc'[r] = "comments"
    ]_vars

\* the first invocation stored post p and failed to mark it; the second one
\* found it new, stored it again and marked it
C21_Witness ==
  \E p \in DOMAIN forum :
    /\ Call(p, "put_object", "ok") \in calls[1]
    /\ Call(p, "put_item", "ClientError") \in calls[1]
    /\ Call(p, "get_item", "miss") \in calls[2]
    /\ Call(p, "put_object", "ok") \in calls[2]
    /\ Call(p, "put_item", "ok") \in calls[2]
    /\ p \in ledger
    /\ pc[1] = "done" /\ pc[2] = "done"

\* the invocation wrote the record of the post and its ledger entry
StoredAndMarked(r, p) ==
  Call(p, "put_object", "ok") \in calls[r] /\ Call(p, "put_item", "ok") \in calls[r]

\* C22: with two invocations interleaved, a post is stored and ledger-marked by
\* both only if neither looked it up after a ledger entry had been written for it
\* (both lookups precede both ledger writes); an invocation that looks a post up
\* once it has a ledger entry is answered with the entry whenever the lookup
\* answers, skips the post as a duplicate, and makes no comment fetch, model
\* invocation, storage write or ledger write for it.
C22_RaceNeedsBothLookupsFirst ==
  [][/\ \A p \in DOMAIN forum :
          (StoredAndMarked(1, p)' /\ StoredAndMarked(2, p)') =>
             p \notin marked_at_lookup'[1] /\ p \notin marked_at_lookup'[2]
     /\ \A r \in Runs :
          /\ \A p \in marked_at_lookup'[r] :
               \A c \in {d \in calls'[r] : d.post = p} :
                 c.op = "get_item" /\ c.res # "miss"
          /\ (pc[r] = "dedup" /\ calls'[r] # calls[r]
                /\ eligible_posts_to_process[r][post_idx[r]] \in ledger) =>
               \/ /\ Call(eligible_posts_to_process[r][post_idx[r]], "get_item", "hit") \in calls'[r]
                  /\ skipped_duplicates'[r] = skipped_duplicates[r] + 1
               \/ \E raised \in {"ClientError", "Exception"} :
                    Call(eligible_posts_to_process[r][post_idx[r]], "get_item", raised) \in calls'[r]
    ]_vars

\* both invocations found post p new, and both stored and marked it; then one
\* of them marked post q, and the other, already in progress, looked q up
\* afterwards and skipped it
C22_Witness ==
  \E p, q \in DOMAIN forum : \E r \in Runs :
    /\ StoredAndMarked(1, p)
    /\ StoredAndMarked(2, p)
    /\ Call(p, "get_item", "miss") \in calls[1]
    /\ Call(p, "get_item", "miss") \in calls[2]
    /\ \E other \in Runs \ {r} : StoredAndMarked(other, q)
    /\ q \notin ledger_at_start[r]
    /\ q \in marked_at_lookup[r]
    /\ Call(q, "get_item", "hit") \in calls[r]

IndexOf(r, p) ==
  {i \in DOMAIN eligible_posts_to_process[r] : eligible_posts_to_process[r][i] = p}

\* C24: within an invocation every external call is made for the post at the
\* current index of the eligible list, one call per step, and the index only
\* moves forward by one: all the calls made so far are for posts at or before the
\* current index, so every call for the post at index i precedes every call for
\* the post at index i + 1, and no two calls are in progress together.
C24_OnePostAtATime ==
  [][\A r \in Runs :
       /\ \A c \in calls'[r] : \E i \in IndexOf(r, c.post)' : i <= post_idx'[r]
       /\ (pc[r] \notin {"idle", "done"} /\ calls'[r] # calls[r]) =>
            /\ pc[r] \in {"dedup", "comments", "bedrock", "store", "mark"}
            /\ calls[r] \subseteq calls'[r]
            /\ \E c \in calls'[r] :
                 /\ calls'[r] = calls[r] \cup {c}
                 /\ c.post = eligible_posts_to_process[r][post_idx[r]]
                 /\ c.op = CASE pc[r] = "dedup" -> "get_item"
                             [] pc[r] = "comments" -> "comments"
                             [] pc[r] = "bedrock" -> "invoke_model"
                             [] pc[r] = "store" -> "put_object"
                             [] pc[r] = "mark" -> "put_item"
       /\ pc[r] \notin {"idle", "done"} =>
            /\ post_idx'[r] \in {post_idx[r], post_idx[r] + 1}
            /\ eligible_posts_to_process[r] # eligible_posts_to_process'[r] => pc[r] = "scan"
       /\ \A i, j \in DOMAIN eligible_posts_to_process'[r] :
            eligible_posts_to_process'[r][i] = eligible_posts_to_process'[r][j] => i = j
    ]_vars

\* both eligible posts went through every stage, the first one before the second
C24_Witness ==
  \E r \in Runs : \E p, q \in DOMAIN forum :
    /\ eligible_posts_to_process[r] = <<p, q>>
    /\ p # q
    /\ \A op \in {"comments", "invoke_model", "put_object", "put_item"} :
         Call(p, op, "ok") \in calls[r] /\ Call(q, op, "ok") \in calls[r]
    /\ post_idx[r] = 2
    /\ pc[r] = "done"

\* the characters of the model with codes 0x00-0x08, 0x0B, 0x0C and 0x0E-0x1F
RemovedCharacters == {"^@", "^A", "^H", "^K", "\f", "^N", "^\\", "^_"}

\* C25: for every answer in which a span is found, the sanitized span is the
\* span less exactly its characters of codes 0x00-0x08, 0x0B, 0x0C and 0x0E-0x1F,
\* the others (tab, newline and carriage return among them) in place and in
\* order; an object whose string value holds a raw 0x01, which the strict parser
\* refuses, is extracted, with the character removed from the value, and so is
\* an object with such characters between its tokens.
C25_SanitizationRemovesControls ==
  (model_output.kind = "text" /\ Match(model_output.text) # <<>>) =>
    LET span == Match(model_output.text) IN
    /\ Sanitize(span) = SelectSeq(span, LAMBDA c : c \notin RemovedCharacters)
    /\ SelectSeq(Sanitize(span), LAMBDA c : c \in {"\t", "\n", "\r"})
         = SelectSeq(span, LAMBDA c : c \in {"\t", "\n", "\r"})
    /\ SelectSeq(Sanitize(span), LAMBDA c : CodePoint(c) \in (0 .. 8) \cup {11, 12} \cup (14 .. 31))
         = <<>>
    /\ (model_output.text = RawControlText /\ result # PyNone) =>
         /\ ~loads(span, TRUE).ok
         /\ PyEq(Get(result, <<"problem_summary">>, PyNone), S("ab"))
         /\ Categories(result) = <<S("N/A - Invalid type or key missing")>>
    /\ (model_output.text = AllControlsText /\ result # PyNone) =>
         /\ ~loads(span, TRUE).ok
         /\ Get(result, <<"problem_summary">>, PyNone) = PyStr(<<"a", "\t", "\n", "\r", "b">>)
    /\ (model_output.text = ControlsBetweenTokensText /\ result # PyNone) =>
         Get(result, <<"problem_summary">>, PyNone) = S("x")

\* the object with the raw 0x01 in its value was extracted
C25_Witness ==
  /\ model_output = TextResponse(RawControlText)
  /\ result # PyNone
  /\ PyEq(Get(result, <<"problem_summary">>, PyNone), S("ab"))

\* the step ends the handling of the current post of the invocation
EndsPost(r) ==
  /\ pc[r] \in {"dedup", "comments", "bedrock", "store", "mark"}
  /\ pc'[r] = "done" \/ post_idx'[r] = post_idx[r] + 1

\* the growth of the three tallies of the invocation in the step
Growth(r) ==
  <<processed_count'[r] - processed_count[r],
    skipped_duplicates'[r] - skipped_duplicates[r],
    Len(failed_posts_details'[r]) - Len(failed_posts_details[r])>>

C27_ExaminedIsEligiblePlusSkipped ==
  \A r \in Runs :
    posts_checked_count[r] =
      Len(eligible_posts_to_process[r]) + skipped_due_to_low_comments[r]

\* the sequence raised after one post had been gathered and one skipped
C27_Witness ==
  /\ scan_raised[1]
  /\ pc[1] = "dedup"
  /\ Len(eligible_posts_to_process[1]) = 1
  /\ skipped_due_to_low_comments[1] = 1
  /\ posts_checked_count[1] = 2

\* the number of comment texts in the stored text, each of which opens with "- "
StoredTexts(text) == Cardinality({i \in DOMAIN text : text[i] = "- "})

\* C28 (as claimed): for every comment cap from 0 up, the
\* FetchedCommentCountForAnalysis of an assembled record is the number of comment
\* texts in its FetchedCommentsText and does not exceed the cap.
C28_CountMatchesStoredComments ==
  data_to_store # PyNone =>
    /\ data_to_store.FetchedCommentCountForAnalysis
         = StoredTexts(data_to_store.FetchedCommentsText)
    /\ data_to_store.FetchedCommentCountForAnalysis <= COMMENT_LIMIT

\* the comment has a body to analyse
Analysable(entry) ==
  /\ entry.kind = "Comment"
  /\ entry.body.t = "str"
  /\ TextOf(strip(entry.body.s)) \notin {"", "[deleted]", "[removed]"}

\* C29: the list of comments for the prompt never holds an empty, "[deleted]" or
\* "[removed]" body, never has more than 3 entries, and is at every moment, and
\* so when it is passed to build_bedrock_prompt, a prefix of the post's
\* analysable comment bodies (stripped) in the order of the listing.
C29_PromptCommentsArePrefix ==
  LET analysable == SelectSeq(comment_listing, Analysable) IN
  /\ Len(top_comments_for_prompt) <= 3
  /\ Len(top_comments_for_prompt) <= Len(analysable)
  /\ \A i \in DOMAIN top_comments_for_prompt :
       /\ TextOf(top_comments_for_prompt[i]) \notin {"", "[deleted]", "[removed]"}
       /\ top_comments_for_prompt[i] = strip(analysable[i].body.s)

\* a removed comment was left out, and of the four others the first three were
\* taken
C29_Witness ==
  /\ cpc = "done"
  /\ comment_listing = <<Comment(PyStr(<<" ", "[removed]", " ">>)), Comment(S("a")),
                         Comment(PyStr(<<" ", "b", "\n">>)), Comment(S("a")),
                         Comment(S("a"))>>
  /\ top_comments_for_prompt = <<<<"a">>, <<"b">>, <<"a">>>>
  /\ comments_fetched_count = 4

\* the step is taken by the invocation
StepOf(r) ==
  \/ pc'[r] # pc[r]
  \/ post_idx'[r] # post_idx[r]
  \/ calls'[r] # calls[r]
  \/ failed_posts_details'[r] # failed_posts_details[r]

\* C30: no step an invocation takes for a post up to and including a failed
\* storage write (the lookup, whatever it answers, the comment fetch, the model
\* invocation, a failed record assembly or conversion, a put_object that raises)
\* changes the bucket or the ledger, so that a post that ends skipped as a
\* duplicate or failed before its storage write succeeded leaves both as they
\* were; the bucket only changes in a put_object that succeeds and the ledger
\* only in a put_item that succeeds; and an invocation makes no storage or ledger
\* write for a post it skipped as a duplicate, and no ledger write for a post
\* whose storage write it did not complete.
C30_SkippedOrFailedLeavesNoTrace ==
  [][\A r \in Runs :
       /\ (StepOf(r) /\ pc[r] \in {"dedup", "comments", "bedrock"}) =>
            ledger' = ledger /\ store' = store
       /\ (StepOf(r) /\ pc[r] = "store") =>
            /\ ledger' = ledger
            /\ pc'[r] # "mark" =>
                 /\ store' = store
                 /\ Len(failed_posts_details'[r]) = Len(failed_posts_details[r]) + 1
                 /\ failed_posts_details'[r][Len(failed_posts_details'[r])].id
                      = eligible_posts_to_process[r][post_idx[r]]
       /\ (StepOf(r) /\ store' # store) =>
            /\ pc[r] = "store" /\ pc'[r] = "mark"
            /\ Call(eligible_posts_to_process[r][post_idx[r]], "put_object", "ok") \in calls'[r]
       /\ (StepOf(r) /\ ledger' # ledger) =>
            /\ pc[r] = "mark"
            /\ Call(eligible_posts_to_process[r][post_idx[r]], "put_item", "ok") \in calls'[r]
       /\ \A c \in calls'[r] :
            /\ (c.op = "get_item" /\ c.res = "hit") =>
                 ~\E d \in calls'[r] : d.post = c.post /\ d.op \in {"put_object", "put_item"}
            /\ c.op = "put_item" => Call(c.post, "put_object", "ok") \in calls'[r]
    ]_vars

\* the storage write of post p raised and post q was skipped as a duplicate;
\* the bucket holds nothing for p and the ledger no entry for it
C30_Witness ==
  \E r \in Runs : \E p, q \in DOMAIN forum :
    /\ Call(p, "put_object", "ClientError") \in calls[r]
    /\ HasFailure(r, p)
    /\ Call(q, "get_item", "hit") \in calls[r]
    /\ pc[r] = "done"
    /\ p \notin ledger
    /\ ~\E rec \in store : rec.PostID = p
    /\ q \in ledger

====
